---- MODULE Spec2Model ----
(***************************************************************************)
(* Model of the object replication core of the storage provider:           *)
(*   - GfSpTQueueWithLimit (src/unnamed/part_001): the bounded, keyed,     *)
(*     limit-aware task queue;                                             *)
(*   - replicateObjectTask / streamReaderGroup (src/unnamed/part_000):     *)
(*     the replicate task, its producer and its fan-out goroutines.        *)
(* Slice indices are 0-based as in the source; the TLA+ sequence `tasks`   *)
(* holds slice element i at position i + 1.                                *)
(***************************************************************************)
EXTENDS Integers, Sequences, FiniteSets, TLC

(***************************************************************************)
(* Bounds of the queue model.                                              *)
(***************************************************************************)
\* capacity handed to NewGfSpTQueueWithLimit
QueueCap == 2
\* how far beyond its capacity the modelled slice may grow
MaxOverflow == 1
\* largest resource limit a task estimates or a caller offers
MaxLimit == 2

Keys == {"A", "B", "C"}
AskLimits == 0..MaxLimit
\* Task.EstimateLimit: each task's estimate is fixed; task B is the costly one
EstimateLimit(k) == IF k = "B" THEN MaxLimit ELSE 1
\* the tasks callers push: one per key
Tasks == {[key |-> k, limit |-> EstimateLimit(k)] : k \in Keys}

\* the nil coretask.Task
NilTask == [key |-> "nil", limit |-> 0]
\* a nil strategy func
NoStrategy == [set |-> FALSE, keys |-> {}]
\* the strategy funcs callers install: nil, or a predicate true of these keys
StrategyKeys == {{}, {"A"}, {"B", "C"}}
Strategies == {NoStrategy} \cup {[set |-> TRUE, keys |-> s] : s \in StrategyKeys}

VARIABLES
    tasks,       \* GfSpTQueueWithLimit.tasks
    indexer,     \* GfSpTQueueWithLimit.indexer: key -> 0-based slice index
    gcFunc,      \* GfSpTQueueWithLimit.gcFunc (retire strategy)
    filterFunc,  \* GfSpTQueueWithLimit.filterFunc
    qop,         \* the last queue call: its name, arguments and results
    qpre         \* tasks and indexer as they were when that call started

qvars == <<tasks, indexer, gcFunc, filterFunc, qop, qpre>>

\* servicetypes.JobState values written by execute
REPLICATE_OBJECT_DOING == "REPLICATE_OBJECT_DOING"
REPLICATE_OBJECT_ERROR == "REPLICATE_OBJECT_ERROR"
SIGN_OBJECT_DOING == "SIGN_OBJECT_DOING"
SIGN_OBJECT_ERROR == "SIGN_OBJECT_ERROR"
SEAL_OBJECT_DOING == "SEAL_OBJECT_DOING"
SEAL_OBJECT_ERROR == "SEAL_OBJECT_ERROR"
SEAL_OBJECT_DONE == "SEAL_OBJECT_DONE"

VARIABLES
    tpc,                  \* where the task is: new, initFailed, ready, loop, recv, wait, seal, listen, returned, crashed
    initErr,              \* the error init returned ("nil" when it succeeded)
    approvalRequests,     \* calls of taskNode.getApproval
    redundancyType,       \* objectInfo.GetRedundancyType()
    segmentPieceNumber,   \* replicateObjectTask.segmentPieceNumber
    redundancyNumber,     \* replicateObjectTask.redundancyNumber
    approximateMemSize,   \* replicateObjectTask.approximateMemSize
    sortedSpEndpoints,    \* replicateObjectTask.sortedSpEndpoints
    spMap,                \* keys of replicateObjectTask.spMap
    approvalResponseMap,  \* keys of replicateObjectTask.approvalResponseMap
    reserveLog,           \* byte counts of the successful rcScope.ReserveMemory calls
    releaseLog,           \* byte counts of the rcScope.ReleaseMemory calls
    jobStates,            \* the states handed to spDB.UpdateJobState, in order
    signerCalls,          \* calls of signer.SealObjectOnChain
    exitPath,             \* the return statement execute left through
    succeedIndexMap,      \* indices i with succeedIndexMap[i] == true
    sealMsg,              \* sealMsg.SecondarySpAddresses/Signatures: index -> endpoint, 0 when unset
    secondarySpAddresses, \* objectInfo.SecondarySpAddresses: index -> endpoint, 0 when unset
    streamReaderMap,      \* keys of sg.streamReaderMap of the current group
    pipe,                 \* per key of streamReaderMap: "open", "eof" (Close) or "err" (CloseWithError)
    pieceSize,            \* sg.pieceSize
    pieceSizeSends,       \* number of completed sends on the group's pieceSize channel
    ppc,                  \* producer goroutine: idle, fetch, send, write, close, exited
    pseg,                 \* producer: segmentPieceIdx
    plen,                 \* producer: length of the piece produced for this segment
    pwritten,             \* producer: indices whose Write of this segment has returned
    pcur,                 \* producer: index whose pWrite.Write it is blocked in (-1: none)
    perr,                 \* producer: whether it left through a fetch or encode error
    rpc,                  \* fan-out goroutine per index: pick, stream, assign, done
    rsp,                  \* fan-out goroutine per index: the endpoint pickSp gave it (0: none)
    rread,                \* fan-out goroutine per index: pieces read from its pipe
    picked,               \* the endpoints pickSp has returned, in order
    ctxDone               \* whether the task's ctx has been cancelled

tvars == <<tpc, initErr, approvalRequests, redundancyType, segmentPieceNumber, redundancyNumber,
           approximateMemSize, sortedSpEndpoints, spMap, approvalResponseMap, reserveLog,
           releaseLog, jobStates, signerCalls, exitPath, succeedIndexMap, sealMsg,
           secondarySpAddresses, streamReaderMap, pipe, pieceSize, pieceSizeSends,
           ppc, pseg, plen, pwritten, pcur, perr, rpc, rsp, rread, picked, ctxDone>>

\* applying a strategy func to a task
Apply(f, task) == task.key \in f.keys

\* limit.NotLess(task.EstimateLimit())
NotLess(limit, task) == limit >= task.limit

\* delete(m, key) on a Go map
MapDelete(m, key) == [k \in (DOMAIN m) \ {key} |-> m[k]]

\* m[key] = v on a Go map
MapSet(m, key, v) == [k \in (DOMAIN m) \cup {key} |-> IF k = key THEN v ELSE m[k]]

\* the queue as a value: the two fields the mutators touch
Queue(ts, ix) == [tasks |-> ts, indexer |-> ix]

\* GfSpTQueueWithLimit.Len
QLen(q) == Len(q.tasks)

\* GfSpTQueueWithLimit.Has
Has(q, key) == key \in DOMAIN q.indexer

\* GfSpTQueueWithLimit.exceed
exceed(q) == Len(q.tasks) >= QueueCap

\* GfSpTQueueWithLimit.add
add(q, task) ==
    LET ts == Append(q.tasks, task)
    IN  Queue(ts, MapSet(q.indexer, task.key, Len(ts) - 1))

\* a variant of delete that is NOT the code: the key is dropped from the
\* index before the bounds check, so also when nothing is spliced
delete_dropkey(q, task) ==
    IF task.key \notin DOMAIN q.indexer THEN q
    ELSE LET idx == q.indexer[task.key]
         IN  IF idx >= Len(q.tasks) THEN Queue(q.tasks, MapDelete(q.indexer, task.key))
             ELSE Queue(SubSeq(q.tasks, 1, idx) \o SubSeq(q.tasks, idx + 2, Len(q.tasks)),
                        MapDelete(q.indexer, task.key))

\* GfSpTQueueWithLimit.delete: splice the slice at indexer[key], drop the key;
\* the indices of the tasks behind the removed one are left as they were
delete(q, task) ==
    IF task.key \notin DOMAIN q.indexer THEN q
    ELSE LET idx == q.indexer[task.key]
         IN  IF idx >= Len(q.tasks) THEN q
             ELSE Queue(SubSeq(q.tasks, 1, idx) \o SubSeq(q.tasks, idx + 2, Len(q.tasks)),
                        MapDelete(q.indexer, task.key))


\* Push, lines 132-137: `for _, backup := range t.tasks` over the slice as it
\* was when the loop started; each backup the retire func accepts triggers
\* t.delete(task) with the INCOMING task, and sets clear
RECURSIVE RetireLoop(_, _, _, _, _, _)
RetireLoop(q, snapshot, i, task, gc, clear) ==
    IF i > Len(snapshot) THEN [q |-> q, clear |-> clear]
    ELSE IF Apply(gc, snapshot[i])
         THEN RetireLoop(delete(q, task), snapshot, i + 1, task, gc, TRUE)
         ELSE RetireLoop(q, snapshot, i + 1, task, gc, clear)

\* a variant of Push that is NOT the code: no duplicate-key check
PushResult_nodup(q, task, gc) ==
    IF exceed(q)
    THEN LET r == IF gc.set THEN RetireLoop(q, q.tasks, 1, task, gc, FALSE)
                  ELSE [q |-> q, clear |-> FALSE]
         IN  IF ~r.clear THEN [q |-> q, err |-> "queue exceed"]
             ELSE [q |-> add(r.q, task), err |-> "nil"]
    ELSE [q |-> add(q, task), err |-> "nil"]

\* GfSpTQueueWithLimit.Push: the queue it leaves and the error it returns
PushResult(q, task, gc) ==
    IF Has(q, task.key) THEN [q |-> q, err |-> "repeated task"]
    ELSE IF exceed(q)
         THEN LET r == IF gc.set THEN RetireLoop(q, q.tasks, 1, task, gc, FALSE)
                       ELSE [q |-> q, clear |-> FALSE]
              IN  IF ~r.clear THEN [q |-> q, err |-> "queue exceed"]
                  ELSE [q |-> add(r.q, task), err |-> "nil"]
         ELSE [q |-> add(q, task), err |-> "nil"]

\* a variant of the TopByLimit scan that is NOT the code: head to tail
TopScan_fifo(ts, i, limit, filter) ==
    LET ok == {j \in 1..Len(ts) : NotLess(limit, ts[j]) /\ (~filter.set \/ Apply(filter, ts[j]))}
    IN  IF ok = {} THEN NilTask ELSE ts[CHOOSE j \in ok : \A m \in ok : j <= m]

\* TopByLimit, lines 62-73: scan slice index i-1 down to 0
RECURSIVE TopScan(_, _, _, _)
TopScan(ts, i, limit, filter) ==
    IF i < 1 THEN NilTask
    ELSE IF NotLess(limit, ts[i]) /\ (~filter.set \/ Apply(filter, ts[i]))
         THEN ts[i]
         ELSE TopScan(ts, i - 1, limit, filter)

\* GfSpTQueueWithLimit.TopByLimit
TopByLimitResult(q, limit, filter) ==
    IF Len(q.tasks) = 0 THEN NilTask ELSE TopScan(q.tasks, Len(q.tasks), limit, filter)

\* PopByLimit, lines 89-100: the same scan, but every visited element is
\* assigned to the variable `task` the deferred func reads; ret is the
\* returned value, task the variable's value when the deferred func runs
RECURSIVE PopScan(_, _, _, _, _)
PopScan(ts, i, limit, filter, task) ==
    IF i < 1 THEN [ret |-> NilTask, task |-> task]
    ELSE IF NotLess(limit, ts[i]) /\ (~filter.set \/ Apply(filter, ts[i]))
         THEN [ret |-> ts[i], task |-> ts[i]]
         ELSE PopScan(ts, i - 1, limit, filter, ts[i])

\* GfSpTQueueWithLimit.PopByLimit: the returned task and the queue left by
\* the deferred `if task != nil { t.delete(task) }`
PopByLimitResult(q, limit, filter) ==
    LET r == IF Len(q.tasks) = 0 THEN [ret |-> NilTask, task |-> NilTask]
             ELSE PopScan(q.tasks, Len(q.tasks), limit, filter, NilTask)
    IN  [ret |-> r.ret, q |-> IF r.task # NilTask THEN delete(q, r.task) ELSE q]

\* GfSpTQueueWithLimit.PopByKey
PopByKeyResult(q, key) ==
    IF key \notin DOMAIN q.indexer THEN [ret |-> NilTask, q |-> q]
    ELSE LET idx == q.indexer[key]
         IN  IF idx >= Len(q.tasks) THEN [ret |-> NilTask, q |-> q]
             ELSE [ret |-> q.tasks[idx + 1], q |-> delete(q, q.tasks[idx + 1])]

\* the record kept of a queue call
QOp(name, task, limit, key, ret, err) ==
    [name |-> name, task |-> task, limit |-> limit, key |-> key, ret |-> ret, err |-> err]

\* NewGfSpTQueueWithLimit
QInit ==
    /\ tasks = <<>>
    /\ indexer = [k \in {} |-> 0]
    /\ gcFunc = NoStrategy
    /\ filterFunc = NoStrategy
    /\ qop = QOp("none", NilTask, 0, "nil", NilTask, "nil")
    /\ qpre = Queue(<<>>, [k \in {} |-> 0])

Push(task) ==
    LET r == PushResult(Queue(tasks, indexer), task, gcFunc)
    IN  /\ Len(r.q.tasks) <= QueueCap + MaxOverflow
        /\ tasks' = r.q.tasks
        /\ indexer' = r.q.indexer
        /\ qop' = QOp("Push", task, 0, task.key, NilTask, r.err)
        /\ qpre' = Queue(tasks, indexer)
        /\ UNCHANGED <<gcFunc, filterFunc>>
        /\ UNCHANGED tvars

TopByLimit(limit) ==
    /\ qop' = QOp("TopByLimit", NilTask, limit, "nil",
                  TopByLimitResult(Queue(tasks, indexer), limit, filterFunc), "nil")
    /\ qpre' = Queue(tasks, indexer)
    /\ UNCHANGED <<tasks, indexer, gcFunc, filterFunc>>
    /\ UNCHANGED tvars

PopByLimit(limit) ==
    LET r == PopByLimitResult(Queue(tasks, indexer), limit, filterFunc)
    IN  /\ tasks' = r.q.tasks
        /\ indexer' = r.q.indexer
        /\ qop' = QOp("PopByLimit", NilTask, limit, "nil", r.ret, "nil")
        /\ qpre' = Queue(tasks, indexer)
        /\ UNCHANGED <<gcFunc, filterFunc>>
        /\ UNCHANGED tvars

PopByKey(key) ==
    LET r == PopByKeyResult(Queue(tasks, indexer), key)
    IN  /\ tasks' = r.q.tasks
        /\ indexer' = r.q.indexer
        /\ qop' = QOp("PopByKey", NilTask, 0, key, r.ret, "nil")
        /\ qpre' = Queue(tasks, indexer)
        /\ UNCHANGED <<gcFunc, filterFunc>>
        /\ UNCHANGED tvars

SetFilterTaskStrategy(filter) ==
    /\ filterFunc' = filter
    /\ qop' = QOp("SetFilterTaskStrategy", NilTask, 0, "nil", NilTask, "nil")
    /\ qpre' = Queue(tasks, indexer)
    /\ UNCHANGED <<tasks, indexer, gcFunc>>
    /\ UNCHANGED tvars

SetRetireTaskStrategy(retire) ==
    /\ gcFunc' = retire
    /\ qop' = QOp("SetRetireTaskStrategy", NilTask, 0, "nil", NilTask, "nil")
    /\ qpre' = Queue(tasks, indexer)
    /\ UNCHANGED <<tasks, indexer, filterFunc>>
    /\ UNCHANGED tvars

QNext ==
    \/ \E task \in Tasks : Push(task)
    \/ \E limit \in AskLimits : TopByLimit(limit)
    \/ \E limit \in AskLimits : PopByLimit(limit)
    \/ \E key \in Keys : PopByKey(key)
    \/ \E filter \in Strategies : SetFilterTaskStrategy(filter)
    \/ \E retire \in Strategies : SetRetireTaskStrategy(retire)

(***************************************************************************)
(* Claims about the task queue, checked under QueueSpec.                   *)
(***************************************************************************)
\* the sequence s without its element at position i
RemoveAt(s, i) == SubSeq(s, 1, i - 1) \o SubSeq(s, i + 1, Len(s))

\* the queue as it is now
QNow == Queue(tasks, indexer)

\* C1 (invariant I3): every key k of the index map satisfies
\* indexer[k] < len(tasks) and tasks[indexer[k]].Key() == k.
C1_I3_IndexerPointsAtKey ==
    \A k \in DOMAIN indexer :
        /\ indexer[k] < Len(tasks)
        /\ tasks[indexer[k] + 1].key = k

\* the case of C1: a task in front of another one has been removed
C1_CaseReached ==
    /\ qop.name \in {"PopByKey", "PopByLimit"}
    /\ qop.ret # NilTask
    /\ Len(qpre.tasks) >= 2
    /\ qop.ret = qpre.tasks[1]

\* C2: Push of a new key on a full queue with a retire strategy that accepts
\* some queued task removes every accepted task and then appends the
\* incoming one.
C2_PushRetiresAccepted ==
    ( /\ qop.name = "Push"
      /\ ~Has(qpre, qop.key)
      /\ Len(qpre.tasks) >= QueueCap
      /\ gcFunc.set
      /\ \E i \in 1..Len(qpre.tasks) : Apply(gcFunc, qpre.tasks[i]) )
    => tasks = Append(SelectSeq(qpre.tasks, LAMBDA t : ~Apply(gcFunc, t)), qop.task)

\* C3: Len() <= Cap() in every reachable state.
C3_LenWithinCap == Len(tasks) <= QueueCap

\* C4: Push returns an error and leaves slice and index map unchanged when
\* (a) the key is already present, or (b) the queue is full and no retire
\* strategy is set or the retire predicate is false for every queued task.
C4_PushErrorLeavesQueue ==
    ( /\ qop.name = "Push"
      /\ \/ Has(qpre, qop.key)
         \/ /\ Len(qpre.tasks) >= QueueCap
            /\ \/ ~gcFunc.set
               \/ \A i \in 1..Len(qpre.tasks) : ~Apply(gcFunc, qpre.tasks[i]) )
    => /\ qop.err # "nil"
       /\ tasks = qpre.tasks
       /\ indexer = qpre.indexer

\* the case of C4(b) with a retire strategy installed that accepts no queued task
C4_Witness ==
    /\ qop.name = "Push"
    /\ ~Has(qpre, qop.key)
    /\ Len(qpre.tasks) >= QueueCap
    /\ gcFunc.set
    /\ qop.err = "queue exceed"
    /\ tasks = qpre.tasks

\* C5: PopByKey(k) with Has(k) returns the task whose key is k and removes
\* exactly that task (Len decreases by one, Has(k) becomes false, the others
\* keep their order); with Has(k) false it returns nil and changes nothing.
C5_PopByKeyRemovesKey ==
    qop.name = "PopByKey" =>
        IF Has(qpre, qop.key)
        THEN /\ qop.ret.key = qop.key
             /\ Len(tasks) = Len(qpre.tasks) - 1
             /\ ~Has(QNow, qop.key)
             /\ \E i \in 1..Len(qpre.tasks) :
                    /\ qpre.tasks[i] = qop.ret
                    /\ tasks = RemoveAt(qpre.tasks, i)
        ELSE /\ qop.ret = NilTask
             /\ tasks = qpre.tasks
             /\ indexer = qpre.indexer

\* C6: PopByLimit(limit) returns what TopByLimit(limit) returns in that
\* state, and a non-nil result is removed and nothing else: Len decreases by
\* one, the returned task is gone, every other task remains.
C6_PopByLimitRemovesTop ==
    qop.name = "PopByLimit" =>
        /\ qop.ret = TopByLimitResult(qpre, qop.limit, filterFunc)
        /\ qop.ret # NilTask =>
               /\ Len(tasks) = Len(qpre.tasks) - 1
               /\ ~Has(QNow, qop.ret.key)
               /\ \E i \in 1..Len(qpre.tasks) :
                      /\ qpre.tasks[i] = qop.ret
                      /\ tasks = RemoveAt(qpre.tasks, i)

\* C7: TopByLimit(limit) returns the task nearest the tail whose estimate is
\* not greater than limit and which passes the filter when one is set, nil
\* when there is none, and changes neither the slice nor the index map.
C7_TopByLimitNewestEligible ==
    qop.name = "TopByLimit" =>
        LET ok == {i \in 1..Len(qpre.tasks) :
                      /\ qpre.tasks[i].limit <= qop.limit
                      /\ (filterFunc.set => qpre.tasks[i].key \in filterFunc.keys)}
        IN  /\ IF ok = {} THEN qop.ret = NilTask
               ELSE qop.ret = qpre.tasks[CHOOSE i \in ok : \A j \in ok : j <= i]
            /\ tasks = qpre.tasks
            /\ indexer = qpre.indexer

\* the case of C7: a filter is set, the tail task is passed over and an
\* older task is returned
C7_Witness ==
    /\ qop.name = "TopByLimit"
    /\ filterFunc.set
    /\ Len(tasks) >= 2
    /\ qop.ret # NilTask
    /\ qop.ret # tasks[Len(tasks)]

(***************************************************************************)
(* The replicate task (src/unnamed/part_000).                              *)
(* One task object: init, then execute with its producer goroutine and its *)
(* fan-out goroutines. Shard indices are 0 .. redundancyNumber-1,          *)
(* candidate endpoints are 1 .. pool size, sorted ascending.               *)
(***************************************************************************)
\* largest number of segment pieces of the object
MaxSegments == 2
\* largest number of candidate SPs the approval layer hands back
MaxPool == 4
\* storage params the SP database returns: K data chunks, M parity chunks,
\* max segment size
StorageParams == [dataChunkNum |-> 1, parityChunkNum |-> 1, maxSegmentSize |-> 2]
PayloadSizes == 0..(MaxSegments * StorageParams.maxSegmentSize)
RedundancyTypes == {"EC", "REPLICA"}
\* lengths of the piece the piece store / encoder hands to the producer
PieceLens == {0, 1}

vars == <<qvars, tvars>>

\* the variables of the task object proper
taskFields == <<initErr, approvalRequests, redundancyType, segmentPieceNumber, redundancyNumber,
                approximateMemSize, reserveLog>>
\* the variables of the candidate pool
poolVars == <<sortedSpEndpoints, spMap, approvalResponseMap, picked>>
\* the variables the fan-out goroutines write on success
resultVars == <<succeedIndexMap, sealMsg, secondarySpAddresses>>
\* the variables of the stream reader group and its producer
groupVars == <<streamReaderMap, pipe, pieceSize, pieceSizeSends, ppc, pseg, plen, pwritten, pcur, perr>>
\* the variables of the fan-out goroutines
fanVars == <<rpc, rsp, rread>>
\* the variables execute's own return paths write
exitVars == <<releaseLog, jobStates, signerCalls, exitPath>>

\* the shard indices of a task
Indices(n) == 0..(n - 1)
\* the shard indices of the modelled storage params
AllIndices == Indices(StorageParams.dataChunkNum + StorageParams.parityChunkNum)

\* an empty Go map / a zeroed slice, as functions
EmptyFn == [i \in {} |-> 0]
Zeroed(n) == [i \in Indices(n) |-> 0]

\* piecestore.ComputeSegmentCount: ceil(payloadSize / maxSegmentSize)
ComputeSegmentCount(size, segmentSize) ==
    (size \div segmentSize) + (IF size % segmentSize > 0 THEN 1 ELSE 0)

\* init, lines 249-254: int(float64(base) * (float64(N)/float64(K) + 1)) with
\* base the smaller of payload size and max segment size (exact for the
\* modelled K)
ApproximateMemSize(payloadSize, params, n) ==
    LET base == IF payloadSize < params.maxSegmentSize THEN payloadSize ELSE params.maxSegmentSize
    IN  (base * (n + params.dataChunkNum)) \div params.dataChunkNum

\* maps.SortKeys over endpoints 1..p
SortKeys(endpoints) ==
    [i \in 1..Cardinality(endpoints) |->
        CHOOSE e \in endpoints : Cardinality({x \in endpoints : x < e}) = i - 1]

\* newReplicateObjectTask: nothing initialised but the two maps
TInit ==
    /\ tpc = "new"
    /\ initErr = "nil"
    /\ approvalRequests = 0
    /\ redundancyType = "EC"
    /\ segmentPieceNumber = 0
    /\ redundancyNumber = 0
    /\ approximateMemSize = 0
    /\ sortedSpEndpoints = <<>>
    /\ spMap = {}
    /\ approvalResponseMap = {}
    /\ reserveLog = <<>>
    /\ releaseLog = <<>>
    /\ jobStates = <<>>
    /\ signerCalls = 0
    /\ exitPath = "none"
    /\ succeedIndexMap = {}
    /\ sealMsg = EmptyFn
    /\ secondarySpAddresses = EmptyFn
    /\ streamReaderMap = {}
    /\ pipe = EmptyFn
    /\ pieceSize = 0
    /\ pieceSizeSends = 0
    /\ ppc = "idle"
    /\ pseg = 0
    /\ plen = 0
    /\ pwritten = {}
    /\ pcur = -1
    /\ perr = FALSE
    /\ rpc = EmptyFn
    /\ rsp = EmptyFn
    /\ rread = EmptyFn
    /\ picked = <<>>
    /\ ctxDone = FALSE

\* TaskNode.getApproval, called at lines 241-242, when it succeeds: the
\* candidate pool is one mapping from endpoint to (SP, approval), so the
\* two maps it returns have the same keys; pool is the number of candidates
getApproval(pool) == [spMap |-> 1..pool, approvalResponseMap |-> 1..pool]

\* a variant that is NOT the code: the memory is reserved as soon as the
\* storage params are known, before the checksum count is checked and the
\* approvals are asked for, and no error path gives it back
init_reserveFirst(rtype, payloadSize, paramsErr, nChecksums, approvalErr, pool, reserveErr) ==
    LET n == StorageParams.dataChunkNum + StorageParams.parityChunkNum
        mem == ApproximateMemSize(payloadSize, StorageParams, n)
    IN  /\ tpc = "new"
        /\ redundancyType' = rtype
        /\ IF paramsErr
           THEN /\ initErr' = "query sp params"
                /\ tpc' = "initFailed"
                /\ UNCHANGED <<approvalRequests, segmentPieceNumber, redundancyNumber,
                               approximateMemSize, poolVars, reserveLog>>
           ELSE /\ segmentPieceNumber' = ComputeSegmentCount(payloadSize, StorageParams.maxSegmentSize)
                /\ redundancyNumber' = n
                /\ approximateMemSize' = mem
                /\ IF reserveErr
                   THEN /\ initErr' = "reserve memory"
                        /\ tpc' = "initFailed"
                        /\ UNCHANGED <<approvalRequests, poolVars, reserveLog>>
                   ELSE /\ reserveLog' = Append(reserveLog, mem)
                        /\ IF n + 1 # nChecksums
                           THEN /\ initErr' = "ErrInvalidParams"
                                /\ tpc' = "initFailed"
                                /\ UNCHANGED <<approvalRequests, poolVars>>
                           ELSE /\ approvalRequests' = approvalRequests + 1
                                /\ IF approvalErr
                                   THEN /\ initErr' = "get approvals"
                                        /\ tpc' = "initFailed"
                                        /\ UNCHANGED poolVars
                                   ELSE /\ spMap' = 1..pool
                                        /\ approvalResponseMap' = 1..pool
                                        /\ sortedSpEndpoints' = SortKeys(1..pool)
                                        /\ picked' = <<>>
                                        /\ initErr' = "nil"
                                        /\ tpc' = "ready"
        /\ UNCHANGED <<exitVars, resultVars, groupVars, fanVars>>
        /\ UNCHANGED <<qvars, ctxDone>>

\* replicateObjectTask.init. paramsErr: GetStorageParams fails; nChecksums:
\* len(objectInfo.Checksums); approvalErr / pool: what getApproval returns;
\* reserveErr: ReserveMemory fails
init(rtype, payloadSize, paramsErr, nChecksums, approvalErr, pool, reserveErr) ==
    LET n == StorageParams.dataChunkNum + StorageParams.parityChunkNum
        mem == ApproximateMemSize(payloadSize, StorageParams, n)
    IN  /\ tpc = "new"
        /\ redundancyType' = rtype
        /\ IF paramsErr
           THEN /\ initErr' = "query sp params"
                /\ tpc' = "initFailed"
                /\ UNCHANGED <<approvalRequests, segmentPieceNumber, redundancyNumber,
                               approximateMemSize, poolVars, reserveLog>>
           ELSE /\ segmentPieceNumber' = ComputeSegmentCount(payloadSize, StorageParams.maxSegmentSize)
                /\ redundancyNumber' = n
                /\ IF n + 1 # nChecksums
                   THEN /\ initErr' = "ErrInvalidParams"
                        /\ tpc' = "initFailed"
                        /\ UNCHANGED <<approvalRequests, approximateMemSize, poolVars, reserveLog>>
                   ELSE /\ approvalRequests' = approvalRequests + 1
                        /\ IF approvalErr
                           THEN /\ initErr' = "get approvals"
                                /\ tpc' = "initFailed"
                                /\ UNCHANGED <<approximateMemSize, poolVars, reserveLog>>
                           ELSE /\ spMap' = getApproval(pool).spMap
                                /\ approvalResponseMap' = getApproval(pool).approvalResponseMap
                                /\ sortedSpEndpoints' = SortKeys(getApproval(pool).approvalResponseMap)
                                /\ picked' = <<>>
                                /\ approximateMemSize' = mem
                                /\ IF reserveErr
                                   THEN /\ initErr' = "reserve memory"
                                        /\ tpc' = "initFailed"
                                        /\ UNCHANGED reserveLog
                                   ELSE /\ initErr' = "nil"
                                        /\ tpc' = "ready"
                                        /\ reserveLog' = Append(reserveLog, mem)
        /\ UNCHANGED <<exitVars, resultVars, groupVars, fanVars>>
        /\ UNCHANGED <<qvars, ctxDone>>


\* a variant that is NOT the code: one recorded success is taken for all
isAllSucceed_any(inputIndexMap) == \E i \in Indices(redundancyNumber) : i \in inputIndexMap

\* isAllSucceed, lines 282-289
isAllSucceed(inputIndexMap) == \A i \in Indices(redundancyNumber) : i \in inputIndexMap

\* a variant that is NOT the code: the exclude map is not consulted, every
\* index gets a pipe
newStreamReaderGroup_all(segments, n, excludeIndexMap) ==
    LET keys == IF segments = 0 THEN {} ELSE Indices(n)
    IN  [keys |-> keys, err |-> keys = {}]

\* newStreamReaderGroup: the keys of streamReaderMap; the group is an error
\* (ErrInvalidParams) when no reader was made
newStreamReaderGroup(segments, n, excludeIndexMap) ==
    LET keys == IF segments = 0 THEN {} ELSE {idx \in Indices(n) : idx \notin excludeIndexMap}
    IN  [keys |-> keys, err |-> keys = {}]

\* a variant that is NOT the code: the deferred release is registered only
\* once the retry loop is over
DeferredRelease_afterLoop(path) == path \notin {"group error", "sp not enough"}

\* execute, lines 273-277: the deferred ReleaseMemory is registered before
\* any return statement, so it runs on every return path
DeferredRelease(path) == TRUE

\* a return statement of execute: the deferred func releases the memory
Return(path) ==
    /\ tpc' = "returned"
    /\ exitPath' = path
    /\ releaseLog' = IF DeferredRelease(path) THEN Append(releaseLog, approximateMemSize)
                     ELSE releaseLog

\* execute, lines 279-316: write REPLICATE_OBJECT_DOING, make the result
\* map, the seal message and the address list
executeStart ==
    /\ tpc = "ready"
    /\ jobStates' = Append(jobStates, REPLICATE_OBJECT_DOING)
    /\ succeedIndexMap' = {}
    /\ sealMsg' = Zeroed(redundancyNumber)
    /\ secondarySpAddresses' = Zeroed(redundancyNumber)
    /\ tpc' = "loop"
    /\ UNCHANGED <<taskFields, poolVars, releaseLog, signerCalls, exitPath, groupVars, fanVars>>
    /\ UNCHANGED <<qvars, ctxDone>>

\* a variant that is NOT the code: the round is started without the
\* check of the group against the remaining candidates
executeLoop_nocheck ==
    /\ tpc = "loop"
    /\ LET sg == newStreamReaderGroup(segmentPieceNumber, redundancyNumber, succeedIndexMap)
       IN  IF isAllSucceed(succeedIndexMap)
           THEN /\ tpc' = "seal"
                /\ UNCHANGED <<releaseLog, exitPath, groupVars>>
           ELSE IF sg.err
           THEN /\ Return("group error")
                /\ UNCHANGED groupVars
           ELSE /\ tpc' = "recv"
                /\ streamReaderMap' = sg.keys
                /\ pipe' = [idx \in sg.keys |-> "open"]
                /\ pieceSize' = 0
                /\ pieceSizeSends' = 0
                /\ ppc' = "fetch"
                /\ pseg' = 0
                /\ plen' = 0
                /\ pwritten' = {}
                /\ pcur' = -1
                /\ perr' = FALSE
                /\ UNCHANGED <<releaseLog, exitPath>>
    /\ UNCHANGED <<taskFields, poolVars, jobStates, signerCalls, resultVars, fanVars>>
    /\ UNCHANGED <<qvars, ctxDone>>

\* execute, lines 318-332: the head of one round of the retry loop; the
\* started producer first fetches segment 0
executeLoop ==
    /\ tpc = "loop"
    /\ LET sg == newStreamReaderGroup(segmentPieceNumber, redundancyNumber, succeedIndexMap)
       IN  IF isAllSucceed(succeedIndexMap)
           THEN /\ tpc' = "seal"
                /\ UNCHANGED <<releaseLog, exitPath, groupVars>>
           ELSE IF sg.err
           THEN /\ Return("group error")
                /\ UNCHANGED groupVars
           ELSE IF Cardinality(sg.keys) > Len(sortedSpEndpoints)
           THEN /\ Return("sp not enough")
                /\ UNCHANGED groupVars
           ELSE /\ tpc' = "recv"
                /\ streamReaderMap' = sg.keys
                /\ pipe' = [idx \in sg.keys |-> "open"]
                /\ pieceSize' = 0
                /\ pieceSizeSends' = 0
                /\ ppc' = "fetch"
                /\ pseg' = 0
                /\ plen' = 0
                /\ pwritten' = {}
                /\ pcur' = -1
                /\ perr' = FALSE
                /\ UNCHANGED <<releaseLog, exitPath>>
    /\ UNCHANGED <<taskFields, poolVars, jobStates, signerCalls, resultVars, fanVars>>
    /\ UNCHANGED <<qvars, ctxDone>>

\* the fan-out loop, lines 334-375: one goroutine per key of streamReaderMap
Spawn ==
    /\ rpc' = [idx \in streamReaderMap |-> "pick"]
    /\ rsp' = [idx \in streamReaderMap |-> 0]
    /\ rread' = [idx \in streamReaderMap |-> 0]

\* the producer's choice of the next pipe to write: the range over
\* streamReaderMap visits the keys in an order the runtime picks
NextWrite(written) ==
    IF written = streamReaderMap THEN {-1} ELSE streamReaderMap \ written

\* produceStreamPieceData, lines 105-108 / 114-117 with line 130: the
\* producer's send on the unbuffered pieceSize channel meets the receive;
\* the producer goes on to its first Write, execute to the fan-out
recvPieceSize ==
    /\ tpc = "recv"
    /\ ppc = "send"
    /\ pieceSize' = plen
    /\ pieceSizeSends' = pieceSizeSends + 1
    /\ ppc' = "write"
    /\ \E idx \in NextWrite({}) : pcur' = idx
    /\ Spawn
    /\ tpc' = "wait"
    /\ UNCHANGED <<taskFields, poolVars, exitVars, resultVars, streamReaderMap, pipe,
                   pseg, plen, pwritten, perr>>
    /\ UNCHANGED <<qvars, ctxDone>>

\* line 130 when the producer has left before sending: the deferred
\* close(pieceSizeCh) makes the receive yield 0
recvClosed ==
    /\ tpc = "recv"
    /\ ppc = "exited"
    /\ pieceSize' = 0
    /\ Spawn
    /\ tpc' = "wait"
    /\ UNCHANGED <<taskFields, poolVars, exitVars, resultVars, streamReaderMap, pipe,
                   pieceSizeSends, ppc, pseg, plen, pwritten, pcur, perr>>
    /\ UNCHANGED <<qvars, ctxDone>>

\* a variant that is NOT the code: the producer never publishes the piece
\* size and goes from the first fetch straight to its writes
producerFetch_skipsend(fetchErr, encodeErr, len) ==
    /\ tpc # "crashed"
    /\ ppc = "fetch"
    /\ IF fetchErr \/ (redundancyType = "EC" /\ encodeErr)
       THEN /\ pipe' = [idx \in streamReaderMap |-> IF pipe[idx] = "open" THEN "err" ELSE pipe[idx]]
            /\ ppc' = "exited"
            /\ perr' = TRUE
            /\ UNCHANGED <<plen, pcur>>
       ELSE /\ plen' = len
            /\ ppc' = "write"
            /\ \E idx \in NextWrite({}) : pcur' = idx
            /\ UNCHANGED <<pipe, perr>>
    /\ UNCHANGED <<tpc, taskFields, poolVars, exitVars, resultVars, streamReaderMap,
                   pieceSize, pieceSizeSends, pseg, pwritten, fanVars>>
    /\ UNCHANGED <<qvars, ctxDone>>

\* a variant that is NOT the code: a first segment of zero length is not
\* published, the producer goes straight to its writes
producerFetch_nozero(fetchErr, encodeErr, len) ==
    /\ tpc # "crashed"
    /\ ppc = "fetch"
    /\ IF fetchErr \/ (redundancyType = "EC" /\ encodeErr)
       THEN /\ pipe' = [idx \in streamReaderMap |-> IF pipe[idx] = "open" THEN "err" ELSE pipe[idx]]
            /\ ppc' = "exited"
            /\ perr' = TRUE
            /\ UNCHANGED <<plen, pcur>>
       ELSE /\ plen' = len
            /\ IF pieceSizeSends = 0 /\ len > 0
               THEN /\ ppc' = "send"
                    /\ UNCHANGED pcur
               ELSE /\ ppc' = "write"
                    /\ \E idx \in NextWrite({}) : pcur' = idx
            /\ UNCHANGED <<pipe, perr>>
    /\ UNCHANGED <<tpc, taskFields, poolVars, exitVars, resultVars, streamReaderMap,
                   pieceSize, pieceSizeSends, pseg, pwritten, fanVars>>
    /\ UNCHANGED <<qvars, ctxDone>>

\* produceStreamPieceData, lines 85-104: fetch segment pseg and, for the EC
\* type, encode it. On an error every writer is closed with the error and
\* the goroutine returns
producerFetch(fetchErr, encodeErr, len) ==
    /\ tpc # "crashed"
    /\ ppc = "fetch"
    /\ IF fetchErr \/ (redundancyType = "EC" /\ encodeErr)
       THEN /\ pipe' = [idx \in streamReaderMap |-> IF pipe[idx] = "open" THEN "err" ELSE pipe[idx]]
            /\ ppc' = "exited"
            /\ perr' = TRUE
            /\ UNCHANGED <<plen, pcur>>
       ELSE /\ plen' = len
            /\ IF pieceSizeSends = 0
               THEN /\ ppc' = "send"
                    /\ UNCHANGED pcur
               ELSE /\ ppc' = "write"
                    /\ \E idx \in NextWrite({}) : pcur' = idx
            /\ UNCHANGED <<pipe, perr>>
    /\ UNCHANGED <<tpc, taskFields, poolVars, exitVars, resultVars, streamReaderMap,
                   pieceSize, pieceSizeSends, pseg, pwritten, fanVars>>
    /\ UNCHANGED <<qvars, ctxDone>>

\* lines 109-112 / 118-121 against streamReader.Read: the Write the
\* producer is blocked in returns when the reader of that pipe takes the
\* piece; the producer moves to the next key, or to the next segment
pipeTransfer(idx) ==
    /\ tpc # "crashed"
    /\ idx \in streamReaderMap
    /\ ppc = "write"
    /\ pcur = idx
    /\ idx \in DOMAIN rpc
    /\ rpc[idx] = "stream"
    /\ rread' = [rread EXCEPT ![idx] = @ + 1]
    /\ LET written == pwritten \cup {idx}
       IN  IF written = streamReaderMap
           THEN /\ pwritten' = {}
                /\ pcur' = -1
                /\ pseg' = pseg + 1
                /\ ppc' = IF pseg + 1 < segmentPieceNumber THEN "fetch" ELSE "close"
           ELSE /\ pwritten' = written
                /\ \E nxt \in NextWrite(written) : pcur' = nxt
                /\ UNCHANGED <<pseg, ppc>>
    /\ UNCHANGED <<tpc, taskFields, poolVars, exitVars, resultVars, streamReaderMap, pipe,
                   pieceSize, pieceSizeSends, plen, perr, rpc, rsp>>
    /\ UNCHANGED <<qvars, ctxDone>>

\* a variant that is NOT the code: the goroutine ends after the last
\* segment without closing the writers
producerClose_none ==
    /\ tpc # "crashed"
    /\ ppc = "close"
    /\ ppc' = "exited"
    /\ UNCHANGED <<tpc, taskFields, poolVars, exitVars, resultVars, streamReaderMap, pipe,
                   pieceSize, pieceSizeSends, pseg, plen, pwritten, pcur, perr, fanVars>>
    /\ UNCHANGED <<qvars, ctxDone>>

\* lines 124-128: every writer is closed without error, the goroutine ends
producerClose ==
    /\ tpc # "crashed"
    /\ ppc = "close"
    /\ pipe' = [idx \in streamReaderMap |-> IF pipe[idx] = "open" THEN "eof" ELSE pipe[idx]]
    /\ ppc' = "exited"
    /\ UNCHANGED <<tpc, taskFields, poolVars, exitVars, resultVars, streamReaderMap,
                   pieceSize, pieceSizeSends, pseg, plen, pwritten, pcur, perr, fanVars>>
    /\ UNCHANGED <<qvars, ctxDone>>

\* a variant that is NOT the code: the head of the list is read but the
\* list is not advanced
popHead_peek(sorted) == [endpoint |-> sorted[1], rest |-> sorted]

\* pickSp, lines 298-301: take the first endpoint off the ordered list
popHead(sorted) == [endpoint |-> sorted[1], rest |-> Tail(sorted)]

\* pickSp, lines 290-305, called at line 340; the task's mutex makes it one step
pickSp(idx) ==
    /\ tpc = "wait"
    /\ idx \in DOMAIN rpc
    /\ rpc[idx] = "pick"
    /\ IF Cardinality(approvalResponseMap) = 0
       THEN /\ rpc' = [rpc EXCEPT ![idx] = "done"]
            /\ UNCHANGED <<rsp, poolVars>>
       ELSE LET head == popHead(sortedSpEndpoints)
                endpoint == head.endpoint
            IN  /\ rsp' = [rsp EXCEPT ![idx] = endpoint]
                /\ sortedSpEndpoints' = head.rest
                /\ spMap' = spMap \ {endpoint}
                /\ approvalResponseMap' = approvalResponseMap \ {endpoint}
                /\ picked' = Append(picked, endpoint)
                /\ rpc' = [rpc EXCEPT ![idx] = "stream"]
    /\ UNCHANGED <<tpc, taskFields, exitVars, resultVars, groupVars, rread>>
    /\ UNCHANGED <<qvars, ctxDone>>

\* replicate, lines 152-187, failing: no gateway client, a transport error
\* at any point of the upload, a wrong integrity hash or a bad signature;
\* the goroutine returns at line 357 and reads its pipe no further
replicateFail(idx) ==
    /\ tpc = "wait"
    /\ idx \in DOMAIN rpc
    /\ rpc[idx] = "stream"
    /\ rpc' = [rpc EXCEPT ![idx] = "done"]
    /\ UNCHANGED <<tpc, taskFields, poolVars, exitVars, resultVars, groupVars, rsp, rread>>
    /\ UNCHANGED <<qvars, ctxDone>>

\* replicate returning hash and signature after the stream ended cleanly
\* (line 354 with a nil error); the goroutine is about to run line 360
replicateSucceed(idx) ==
    /\ tpc = "wait"
    /\ idx \in DOMAIN rpc
    /\ rpc[idx] = "stream"
    /\ pipe[idx] = "eof"
    /\ rpc' = [rpc EXCEPT ![idx] = "assign"]
    /\ UNCHANGED <<tpc, taskFields, poolVars, exitVars, resultVars, groupVars, rsp, rread>>
    /\ UNCHANGED <<qvars, ctxDone>>

\* what the unsynchronised `succeedIndexMap[rIdx] = true` of one goroutine
\* can come to while another goroutine is in the same assignment: the Go
\* runtime may let both writes land, may lose this one, or may stop the
\* process with "fatal error: concurrent map writes"
AssignOutcomes(idx) ==
    IF \E j \in DOMAIN rpc : j # idx /\ rpc[j] = "assign"
    THEN {"ok", "lost", "fatal"}
    ELSE {"ok"}

\* lines 360-370: record the success of shard idx
recordSuccess(idx, outcome) ==
    /\ tpc = "wait"
    /\ idx \in DOMAIN rpc
    /\ rpc[idx] = "assign"
    /\ outcome \in AssignOutcomes(idx)
    /\ IF outcome = "fatal"
       THEN /\ tpc' = "crashed"
            /\ UNCHANGED <<resultVars, rpc>>
       ELSE /\ succeedIndexMap' = IF outcome = "ok" THEN succeedIndexMap \cup {idx}
                                  ELSE succeedIndexMap
            /\ sealMsg' = [sealMsg EXCEPT ![idx] = rsp[idx]]
            /\ secondarySpAddresses' = [secondarySpAddresses EXCEPT ![idx] = rsp[idx]]
            /\ rpc' = [rpc EXCEPT ![idx] = "done"]
            /\ UNCHANGED tpc
    /\ UNCHANGED <<taskFields, poolVars, exitVars, groupVars, rsp, rread>>
    /\ UNCHANGED <<qvars, ctxDone>>

\* the holder of the task's ctx (line 194) cancels it while execute runs;
\* nothing in init, execute, the producer or replicate reads ctx.Done()
cancelCtx ==
    /\ tpc \in {"ready", "loop", "recv", "wait", "seal", "listen"}
    /\ ~ctxDone
    /\ ctxDone' = TRUE
    /\ UNCHANGED <<tpc, taskFields, poolVars, exitVars, resultVars, groupVars, fanVars>>
    /\ UNCHANGED qvars

\* a variant that is NOT the code: there is no wg.Wait, the loop starts
\* over while the goroutines of the round are still running
executeWait_nobarrier ==
    /\ tpc = "wait"
    /\ tpc' = "loop"
    /\ streamReaderMap' = {}
    /\ pipe' = EmptyFn
    /\ ppc' = "idle"
    /\ pseg' = 0
    /\ plen' = 0
    /\ pwritten' = {}
    /\ pcur' = -1
    /\ perr' = FALSE
    /\ UNCHANGED <<taskFields, poolVars, exitVars, resultVars, pieceSize, pieceSizeSends, fanVars>>
    /\ UNCHANGED <<qvars, ctxDone>>

\* wg.Wait, line 376: every goroutine of the round has returned; the group
\* is dropped and the loop starts over
executeWait ==
    /\ tpc = "wait"
    /\ \A idx \in DOMAIN rpc : rpc[idx] = "done"
    /\ tpc' = "loop"
    /\ rpc' = EmptyFn
    /\ rsp' = EmptyFn
    /\ rread' = EmptyFn
    /\ streamReaderMap' = {}
    /\ pipe' = EmptyFn
    /\ ppc' = "idle"
    /\ pseg' = 0
    /\ plen' = 0
    /\ pwritten' = {}
    /\ pcur' = -1
    /\ perr' = FALSE
    /\ UNCHANGED <<taskFields, poolVars, exitVars, resultVars, pieceSize, pieceSizeSends>>
    /\ UNCHANGED <<qvars, ctxDone>>

\* a variant that is NOT the code: the return after SIGN_OBJECT_ERROR is missing
SignWrites_noreturn(signErr) ==
    IF signErr THEN <<SIGN_OBJECT_DOING, SIGN_OBJECT_ERROR, SEAL_OBJECT_DOING>>
    ELSE <<SIGN_OBJECT_DOING, SEAL_OBJECT_DOING>>

\* lines 381-388: the job states written around SealObjectOnChain
SignWrites(signErr) ==
    IF signErr THEN <<SIGN_OBJECT_DOING, SIGN_OBJECT_ERROR>>
    ELSE <<SIGN_OBJECT_DOING, SEAL_OBJECT_DOING>>

\* lines 389-396: the job state written after ListenObjectSeal
SealWrites(sealErr) ==
    IF sealErr THEN <<SEAL_OBJECT_ERROR>> ELSE <<SEAL_OBJECT_DONE>>

\* lines 380-388 and 398-402: after the loop, sign the seal message or
\* record the replicate error
executeSign(signErr) ==
    /\ tpc = "seal"
    /\ IF isAllSucceed(succeedIndexMap)
       THEN /\ signerCalls' = signerCalls + 1
            /\ jobStates' = jobStates \o SignWrites(signErr)
            /\ IF signErr THEN Return("sign error")
               ELSE /\ tpc' = "listen"
                    /\ UNCHANGED <<releaseLog, exitPath>>
       ELSE /\ jobStates' = Append(jobStates, REPLICATE_OBJECT_ERROR)
            /\ Return("replicate error")
            /\ UNCHANGED signerCalls
    /\ UNCHANGED <<taskFields, poolVars, resultVars, groupVars, fanVars>>
    /\ UNCHANGED <<qvars, ctxDone>>

\* lines 389-397: wait for the seal on chain
executeListen(sealErr) ==
    /\ tpc = "listen"
    /\ jobStates' = jobStates \o SealWrites(sealErr)
    /\ Return(IF sealErr THEN "seal error" ELSE "sealed")
    /\ UNCHANGED <<taskFields, poolVars, signerCalls, resultVars, groupVars, fanVars>>
    /\ UNCHANGED <<qvars, ctxDone>>

TNext ==
    \/ \E rtype \in RedundancyTypes, payloadSize \in PayloadSizes, paramsErr \in BOOLEAN,
          nChecksums \in {StorageParams.dataChunkNum + StorageParams.parityChunkNum,
                          StorageParams.dataChunkNum + StorageParams.parityChunkNum + 1},
          approvalErr \in BOOLEAN, pool \in 0..MaxPool, reserveErr \in BOOLEAN :
          init(rtype, payloadSize, paramsErr, nChecksums, approvalErr, pool, reserveErr)
    \/ executeStart
    \/ executeLoop
    \/ recvPieceSize
    \/ recvClosed
    \/ \E fetchErr \in BOOLEAN, encodeErr \in BOOLEAN, len \in PieceLens :
          producerFetch(fetchErr, encodeErr, len)
    \/ \E idx \in AllIndices : pipeTransfer(idx)
    \/ producerClose
    \/ \E idx \in AllIndices : pickSp(idx)
    \/ \E idx \in AllIndices : replicateFail(idx)
    \/ \E idx \in AllIndices : replicateSucceed(idx)
    \/ \E idx \in AllIndices, outcome \in {"ok", "lost", "fatal"} : recordSuccess(idx, outcome)
    \/ executeWait
    \/ cancelCtx
    \/ \E signErr \in BOOLEAN : executeSign(signErr)
    \/ \E sealErr \in BOOLEAN : executeListen(sealErr)

\* an empty queue and a task just constructed
Init == QInit /\ TInit

\* the queue on its own
QueueSpec == Init /\ [][QNext]_vars

\* one replicate task on its own
TaskSpec == Init /\ [][TNext]_vars

(***************************************************************************)
(* Claims about the replicate task, checked under TaskSpec.                *)
(***************************************************************************)
\* C8: after a successful init, every return from execute comes with
\* exactly one ReleaseMemory, of the byte count init reserved; nothing is
\* released before execute returns.
C8_ReleaseOnEveryReturn ==
    IF tpc = "returned"
    THEN /\ Len(reserveLog) = 1
         /\ releaseLog = reserveLog
    ELSE releaseLog = <<>>

\* the case of C8 on an early return path: the pool was too small, and a
\* non-zero reservation has been given back
C8_Witness ==
    /\ tpc = "returned"
    /\ exitPath = "sp not enough"
    /\ reserveLog # <<>>
    /\ reserveLog[1] > 0
    /\ releaseLog = reserveLog

\* C9: when a round starts with more unsatisfied shard indices than
\* remaining candidate SPs, execute ends with the job state
\* REPLICATE_OBJECT_ERROR written last and the signer never called.
C9_PoolExhaustionRecorded ==
    exitPath = "sp not enough" =>
        /\ jobStates # <<>>
        /\ jobStates[Len(jobStates)] = REPLICATE_OBJECT_ERROR
        /\ signerCalls = 0

\* the progression of job states and the error state that may end it after
\* its n-th state
StateChain == <<REPLICATE_OBJECT_DOING, SIGN_OBJECT_DOING, SEAL_OBJECT_DOING, SEAL_OBJECT_DONE>>
ErrorAfter == <<REPLICATE_OBJECT_ERROR, SIGN_OBJECT_ERROR, SEAL_OBJECT_ERROR>>

\* C10: the job states written by one run of execute are a prefix of
\* REPLICATE_DOING, SIGN_DOING, SEAL_DOING, SEAL_DONE, optionally ended by
\* the error state that belongs to the last state of the prefix; so nothing
\* follows an error state or SEAL_DONE and no state follows a later one.
C10_JobStateProgression ==
    \E n \in 0..Len(StateChain) :
        \/ jobStates = SubSeq(StateChain, 1, n)
        \/ /\ n \in 1..Len(ErrorAfter)
           /\ jobStates = Append(SubSeq(StateChain, 1, n), ErrorAfter[n])

\* the case of C10: a run that went through every doing-state and ended in
\* the seal error
C10_Witness ==
    /\ tpc = "returned"
    /\ Len(jobStates) = 4
    /\ jobStates[4] = SEAL_OBJECT_ERROR

\* C11: the signer is called, and SEAL_OBJECT_DONE written, only when every
\* shard index is recorded as succeeded and the slot of every index is
\* filled in secondarySpAddresses and in the seal message.
C11_SealOnlyWhenAllSucceeded ==
    (signerCalls > 0 \/ \E n \in 1..Len(jobStates) : jobStates[n] = SEAL_OBJECT_DONE) =>
        \A i \in Indices(redundancyNumber) :
            /\ i \in succeedIndexMap
            /\ secondarySpAddresses[i] # 0
            /\ sealMsg[i] # 0

\* the case of C11: the object was sealed after a shard had to be retried
\* with the third candidate
C11_Witness ==
    /\ tpc = "returned"
    /\ exitPath = "sealed"
    /\ signerCalls = 1
    /\ Len(picked) = 3
    /\ \A i \in Indices(redundancyNumber) : secondarySpAddresses[i] # 0

\* C12: no endpoint is returned by pickSp twice in a run, so two picks of
\* one round never hold the same SP and a retried shard gets an SP that no
\* shard was given before.
C12_PickedAtMostOnce ==
    /\ \A m, n \in 1..Len(picked) : m # n => picked[m] # picked[n]
    /\ \A i, j \in DOMAIN rsp : (i # j /\ rsp[i] # 0) => rsp[i] # rsp[j]
    /\ \A i \in DOMAIN rsp : rsp[i] # 0 => \E n \in 1..Len(picked) : picked[n] = rsp[i]

\* the case of C12: a second round, in which the retried shard holds the
\* third endpoint after both shards of the first round held one each
C12_Witness ==
    /\ Len(picked) = 3
    /\ \E i \in DOMAIN rsp : rsp[i] = picked[3]

\* the steps of a running execute that fair scheduling and returning
\* external calls guarantee: every step of the orchestrator and of the
\* producer, a read of a piece the producer is writing, and the return of
\* a gateway call whose stream has ended (cleanly or with the producer's
\* error). A replication that fails while its stream is still open is not
\* among them: it is a failure that may or may not happen.
GuaranteedStep ==
    \/ executeStart
    \/ executeLoop
    \/ recvPieceSize
    \/ recvClosed
    \/ \E fetchErr \in BOOLEAN, encodeErr \in BOOLEAN, len \in PieceLens :
          producerFetch(fetchErr, encodeErr, len)
    \/ \E idx \in AllIndices : pipeTransfer(idx)
    \/ producerClose
    \/ \E idx \in AllIndices : pickSp(idx)
    \/ \E idx \in AllIndices :
          /\ idx \in DOMAIN pipe
          /\ pipe[idx] # "open"
          /\ (replicateFail(idx) \/ replicateSucceed(idx))
    \/ \E idx \in AllIndices, outcome \in {"ok", "lost", "fatal"} : recordSuccess(idx, outcome)
    \/ executeWait
    \/ \E signErr \in BOOLEAN : executeSign(signErr)
    \/ \E sealErr \in BOOLEAN : executeListen(sealErr)

\* C13: execute eventually returns for every pattern of per-shard
\* replication failures, a replicator that fails before reading its pipe
\* included; so a running execute is never in a state from which none of
\* its guaranteed steps can be taken.
C13_ExecuteNeverStuck ==
    tpc \in {"ready", "loop", "recv", "wait", "seal", "listen"} => ENABLED GuaranteedStep

\* the case of C13: one replicator has returned without reading, the
\* producer is in the Write to that replicator's pipe, and the other
\* replicator is waiting on its own open pipe
C13_Witness ==
    /\ tpc = "wait"
    /\ ppc = "write"
    /\ pcur \in DOMAIN rpc
    /\ rpc[pcur] = "done"
    /\ rread[pcur] = 0
    /\ \E j \in DOMAIN rpc : j # pcur /\ rpc[j] = "stream" /\ pipe[j] = "open"

\* C14: once the task's ctx is cancelled during a round, the producer
\* closes every writer pipe with an error and the replicators get no
\* further data; so a producer that is about to fetch a segment with the
\* ctx already cancelled does not go on to publish or write that segment.
C14_CancelStopsProducer ==
    [][(ctxDone /\ ppc = "fetch") => ppc' \notin {"send", "write"}]_vars

\* the case of C14: the ctx was cancelled, and a replicator has none the
\* less read its stream to a clean EOF and returned success
C14_Witness ==
    /\ ctxDone
    /\ \E idx \in DOMAIN pipe : pipe[idx] = "eof" /\ rpc[idx] = "assign"

\* C15: whenever init returns an error no memory is left reserved, and the
\* checksum-count mismatch is reported as ErrInvalidParams before any
\* approval has been requested.
C15_InitErrorReservesNothing ==
    tpc = "initFailed" =>
        /\ initErr # "nil"
        /\ Len(reserveLog) = Len(releaseLog)
        /\ initErr = "ErrInvalidParams" => approvalRequests = 0

\* the case of C15: init has returned the checksum-count error
C15_Witness ==
    /\ tpc = "initFailed"
    /\ initErr = "ErrInvalidParams"
    /\ approvalRequests = 0
    /\ reserveLog = <<>>

\* C19 as stated (invariant I4): by the time the producer of a group has
\* exited, whether after all segments or on a fetch or encode error, it
\* has sent exactly one value on the group's pieceSize channel.
C19_ExactlyOneSend == ppc = "exited" => pieceSizeSends = 1

\* C19, amended: the producer of a group sends at most one value on the
\* pieceSize channel; it has sent exactly one once it writes pieces or has
\* exited, except when it exited on a fetch or encode error of the first
\* segment: then it has sent none.
C19_AtMostOneSend ==
    /\ pieceSizeSends <= 1
    /\ ppc \in {"write", "close"} => pieceSizeSends = 1
    /\ ppc = "exited" => pieceSizeSends = (IF perr /\ pseg = 0 THEN 0 ELSE 1)

\* the case of C19: the first fetch failed, the producer closed the
\* channel without a send and execute received the zero value
C19_Witness ==
    /\ tpc = "wait"
    /\ ppc = "exited"
    /\ perr
    /\ pseg = 0
    /\ pieceSizeSends = 0
    /\ pieceSize = 0

\* C20: when the producer has exited on a fetch or encode error every
\* writer pipe is closed with the error; when it has exited after the last
\* segment every writer pipe is closed without error; and while it is
\* still fetching, publishing or writing no pipe is closed, so no pipe is
\* written to after its close.
C20_PipesClosedAtExit ==
    /\ DOMAIN pipe = streamReaderMap
    /\ (ppc = "exited" /\ perr) => \A idx \in streamReaderMap : pipe[idx] = "err"
    /\ (ppc = "exited" /\ ~perr) => \A idx \in streamReaderMap : pipe[idx] = "eof"
    /\ ppc \in {"fetch", "send", "write", "close"} => \A idx \in streamReaderMap : pipe[idx] = "open"

\* the case of C20: the producer wrote the first segment to every pipe,
\* failed on the second and closed every pipe with the error
C20_Witness ==
    /\ ppc = "exited"
    /\ perr
    /\ pseg = 1
    /\ streamReaderMap # {}
    /\ \A idx \in streamReaderMap : pipe[idx] = "err" /\ rread[idx] = 1

\* C21: the orchestrator's receive of pieceSize always completes: while
\* execute waits in it no replicator exists yet, and the producer is either
\* in its first piece-store call, or in its send (which the receive
\* meets), or gone with the channel closed (the receive yields 0); it is
\* never in a pipe Write, so no reader is needed for the receive to end.
C21_PieceSizeReceiveCompletes ==
    tpc = "recv" =>
        /\ rpc = EmptyFn
        /\ ppc \in {"fetch", "send", "exited"}
        /\ ppc = "fetch" => (pseg = 0 /\ ENABLED (\E fetchErr \in BOOLEAN, encodeErr \in BOOLEAN,
                                                      len \in PieceLens :
                                                      producerFetch(fetchErr, encodeErr, len)))
        /\ ppc = "send" => ENABLED recvPieceSize
        /\ ppc = "exited" => ENABLED recvClosed

\* the case of C21: the first segment had zero length, its size 0 was
\* published and received, and no replicator has read anything yet
C21_Witness ==
    /\ tpc = "wait"
    /\ ppc = "write"
    /\ pseg = 0
    /\ plen = 0
    /\ pieceSizeSends = 1
    /\ pieceSize = 0
    /\ \A idx \in DOMAIN rread : rread[idx] = 0

\* the elements of a sequence
Range(s) == {s[n] : n \in 1..Len(s)}

\* the endpoints the goroutines of the current round hold
RoundPicks == {rsp[idx] : idx \in DOMAIN rsp} \ {0}

\* C22: the ordered list and the two maps of the pool always hold the same
\* endpoints; in a round that passed the pre-check no goroutine's pickSp
\* finds the pool exhausted; what has left the pool is exactly what pickSp
\* returned; and when the round is over its goroutines have taken exactly
\* one endpoint per pipe, at least one, out of the pool.
C22_RoundConsumesOnePerPipe ==
    /\ spMap = approvalResponseMap
    /\ Range(sortedSpEndpoints) = spMap
    /\ Len(sortedSpEndpoints) = Cardinality(spMap)
    /\ \A idx \in DOMAIN rpc : rpc[idx] # "pick" => rsp[idx] # 0
    /\ RoundPicks \cap spMap = {}
    /\ picked \o sortedSpEndpoints = SortKeys(Range(picked) \cup spMap)
    /\ (tpc = "wait" /\ \A idx \in DOMAIN rpc : rpc[idx] = "done") =>
           /\ streamReaderMap # {}
           /\ Cardinality(RoundPicks) = Cardinality(streamReaderMap)
           /\ Len(picked) >= Cardinality(streamReaderMap)
           /\ RoundPicks = {picked[n] : n \in (Len(picked) - Cardinality(streamReaderMap) + 1)..Len(picked)}

\* the case of C22: the second round is over; its one pipe took the third
\* and last endpoint although the replication failed again
C22_Witness ==
    /\ tpc = "wait"
    /\ \A idx \in DOMAIN rpc : rpc[idx] = "done"
    /\ Cardinality(streamReaderMap) = 1
    /\ Len(picked) = 3
    /\ sortedSpEndpoints = <<>>
    /\ Cardinality(succeedIndexMap) = 1

\* C23 (invariant I2): within a run of execute the succeeded set only
\* grows; a stream reader group, when it is made, has pipes for exactly
\* the indices below redundancyNumber that are not yet succeeded; and no
\* goroutine is picking an SP or streaming for an index that is succeeded.
C23_I2_SucceededOnlyGrows ==
    [][/\ succeedIndexMap \subseteq succeedIndexMap'
       /\ (streamReaderMap' # streamReaderMap /\ streamReaderMap' # {}) =>
              streamReaderMap' = Indices(redundancyNumber) \ succeedIndexMap
       /\ \A idx \in DOMAIN rpc' :
              rpc'[idx] \in {"pick", "stream"} => idx \notin succeedIndexMap']_vars

\* the case of C23: one index succeeded in the first round, and the group
\* of the second round has a pipe for the other index only
C23_Witness ==
    /\ tpc = "recv"
    /\ Cardinality(succeedIndexMap) = 1
    /\ Len(picked) = 2
    /\ streamReaderMap = Indices(redundancyNumber) \ succeedIndexMap

\* C24: in a fan-out round there is exactly one goroutine per active shard
\* index, and the slot of an index in the succeeded map, in the seal
\* message and in secondarySpAddresses is written only by the goroutine of
\* that index, one goroutine at a step; and whenever execute is not between
\* the spawn and the wait barrier, where alone it reads the succeeded map,
\* no fan-out goroutine exists.
C24_OneWriterPerIndex ==
    [][/\ tpc' = "wait" => DOMAIN rpc' = streamReaderMap'
       /\ tpc' \notin {"wait", "crashed"} => rpc' = EmptyFn
       /\ \A i \in (DOMAIN sealMsg) \cap (DOMAIN sealMsg') :
              (\/ (i \in succeedIndexMap') # (i \in succeedIndexMap)
               \/ sealMsg'[i] # sealMsg[i]
               \/ secondarySpAddresses'[i] # secondarySpAddresses[i])
              => /\ i \in DOMAIN rpc
                 /\ rpc[i] = "assign"
                 /\ rpc'[i] = "done"
                 /\ \A j \in (DOMAIN rpc) \ {i} : rpc'[j] = rpc[j]]_vars

\* the case of C24: the two goroutines of one round have each recorded
\* their own index and the barrier is about to be passed
C24_Witness ==
    /\ tpc = "wait"
    /\ Cardinality(DOMAIN rpc) = 2
    /\ \A idx \in DOMAIN rpc : rpc[idx] = "done" /\ idx \in succeedIndexMap /\ sealMsg[idx] = rsp[idx]
    /\ Len(picked) = 2

(***************************************************************************)
(* Further claims about the task queue, checked under QueueSpec.           *)
(***************************************************************************)
\* C16: after any sequence of Push, PopByLimit and PopByKey the slice and
\* the index map have the same number of entries.
C16_LenTasksEqualsLenIndexer == Len(tasks) = Cardinality(DOMAIN indexer)

\* the case of C16: a pop has handed out a task and has left a queue
\* whose index map no longer points at the tasks it names
C16_Witness ==
    /\ qop.name \in {"PopByLimit", "PopByKey"}
    /\ qop.ret # NilTask
    /\ tasks # <<>>
    /\ \E k \in DOMAIN indexer : indexer[k] >= Len(tasks)

\* C17: when PopByLimit returns nil on a queue that is not empty, the
\* queue is left as it was.
C17_NilPopLeavesQueue ==
    (qop.name = "PopByLimit" /\ qop.ret = NilTask /\ Len(qpre.tasks) > 0) => QNow = qpre

\* the case of C17: PopByLimit found no task on a non-empty queue
C17_Witness ==
    /\ qop.name = "PopByLimit"
    /\ qop.ret = NilTask
    /\ Len(qpre.tasks) > 0
    /\ Len(tasks) < Len(qpre.tasks)

\* C18: a task that PopByLimit or PopByKey has returned is not returned
\* again unless it is pushed again in between; so the call that follows a
\* pop which returned a task, when it is a pop or a TopByLimit, does not
\* return that task.
C18_HandedOutOnce ==
    [][(/\ qop.name \in {"PopByLimit", "PopByKey"}
        /\ qop.ret # NilTask
        /\ qop'.name \in {"PopByLimit", "PopByKey", "TopByLimit"})
       => qop'.ret # qop.ret]_vars

\* the case of C18: a pop has returned a task that is still in the slice
C18_Witness ==
    /\ qop.name \in {"PopByLimit", "PopByKey"}
    /\ qop.ret # NilTask
    /\ \E j \in 1..Len(tasks) : tasks[j] = qop.ret
    /\ Cardinality({j \in 1..Len(qpre.tasks) : qpre.tasks[j] = qop.ret}) = 1
====
